---- MODULE Spec2Model ----
(***************************************************************************)
(* Model of the beacon-state getters (package state: Clone and the twenty  *)
(* field accessors of BeaconState) and of the RemoteSigner REST gateway    *)
(* handlers (keymanager.pb.gw.go).                                         *)
(*                                                                         *)
(* Byte slices that an accessor hands out WITHOUT copying (the fork        *)
(* versions, a validator's public key and withdrawal credentials) are      *)
(* modelled as addresses into the heap `mem`, so that a write through one  *)
(* holder is seen by every other holder.  Byte slices that are only ever   *)
(* copied out of the store (roots, hashes) are modelled by value.          *)
(***************************************************************************)
EXTENDS Integers, Sequences, FiniteSets, TLC

VARIABLES
    state,      \* b.state: the protobuf the BeaconState wraps
    next,       \* the candidate state of the next slot, not yet committed
    mem,        \* heap: address -> bytes of a shared backing array
    mem0,       \* the heap as it was when the accessor returned
    fn,         \* name of the operation that was called ("none" before)
    a, b,       \* the values returned by two successive calls of fn
    a0, b0,     \* deep value of a and of b at the time they were returned
    touched,    \* "none", "a" (caller wrote through a), "store" (commit)
    rpc,        \* a concurrent reader: the operation it runs and how far it is
    rold,       \* b.state when the reader started
    rlen,       \* the length the reader allocated its result with
    rres,       \* what the reader has built so far, its result once done
    hreq, hresp, hcount      \* gateway: last request, what was written, requests served

gvars == <<state, next, mem, mem0, fn, a, b, a0, b0, touched>>
cvars == <<rpc, rold, rlen, rres>>
hvars == <<hreq, hresp, hcount>>
vars  == <<gvars, cvars, hvars>>

-----------------------------------------------------------------------------
(* Bounds of the model *)

MaxBufLen == 40       \* stored root buffers have 0..MaxBufLen bytes
MaxLen == 2           \* sequences of the store have 0..MaxLen elements
KeyLen == 2           \* bytes in a shared backing array (version, key)
MaxRequests == 2      \* gateway requests served in one behaviour

(* Program constant: the width of a root, `[32]byte` *)
RootLen == 32

-----------------------------------------------------------------------------
(* Go values *)

Nil == [nil |-> TRUE]                 \* a nil pointer to a message
Panic == [ok |-> FALSE]               \* the call aborted (nil dereference, index out of range)
Ret(v) == [ok |-> TRUE, val |-> v]    \* the call returned v

Fill(v, L) == [i \in 1..L |-> v]
Ramp(L) == [i \in 1..L |-> (i % 7) + 1]

\* `[32]byte{}` / `var root [32]byte`: a zeroed array
Zero32 == Fill(0, RootLen)

\* make([]T, n) for a numeric T
make(n) == Fill(0, n)

\* Go's builtin copy(dst, src): copies min(len(dst), len(src)) elements
copy(dst, src) ==
    [i \in 1..Len(dst) |-> IF i <= Len(src) THEN src[i] ELSE dst[i]]

\* seq[i] with Go's bounds check (i is 1-based here)
Index(seq, i) == IF i \in 1..Len(seq) THEN Ret(seq[i]) ELSE Panic

\* the result of a loop that fills res[i] for every i: aborts if one step aborts
Collect(elems) ==
    IF \E i \in 1..Len(elems) : ~elems[i].ok THEN Panic
    ELSE Ret([i \in 1..Len(elems) |-> elems[i].val])

-----------------------------------------------------------------------------
(* The accessors, as functions of s = b.state *)

GenesisTime(s) == Ret(s.GenesisTime)

Slot(s) == Ret(s.Slot)

Fork(s) ==
    IF s.Fork = Nil THEN Panic
    ELSE Ret([PreviousVersion |-> s.Fork.PreviousVersion,
              CurrentVersion  |-> s.Fork.CurrentVersion,
              Epoch           |-> s.Fork.Epoch])

LatestBlockHeader(s) ==
    IF s.LatestBlockHeader = Nil THEN Panic
    ELSE LET parentRoot == copy(Zero32, s.LatestBlockHeader.ParentRoot)
             bodyRoot   == copy(Zero32, s.LatestBlockHeader.StateRoot)
             stateRoot  == copy(Zero32, s.LatestBlockHeader.BodyRoot)
         IN  Ret([Slot       |-> s.LatestBlockHeader.Slot,
                  ParentRoot |-> parentRoot,
                  BodyRoot   |-> bodyRoot,
                  StateRoot  |-> stateRoot])

BlockRoots(s) ==
    Ret([i \in 1..Len(s.BlockRoots) |-> copy(Zero32, s.BlockRoots[i])])

StateRoots(s) ==
    Ret([i \in 1..Len(s.StateRoots) |-> copy(Zero32, s.StateRoots[i])])

HistoricalRoots(s) ==
    Ret([i \in 1..Len(s.HistoricalRoots) |-> copy(Zero32, s.HistoricalRoots[i])])

Eth1Data(s) ==
    IF s.Eth1Data = Nil THEN Panic
    ELSE Ret([DepositCount |-> s.Eth1Data.DepositCount,
              DepositRoot  |-> copy(Zero32, s.Eth1Data.DepositRoot),
              BlockHash    |-> copy(Zero32, s.Eth1Data.BlockHash)])

\* Eth1DataVotes with the loop running to i <= len(res)
Eth1DataVotesOffByOne(s) ==
    LET res == make(Len(s.Eth1DataVotes))
        step(i) ==
            IF s.Eth1Data = Nil THEN Panic
            ELSE LET vote == Index(s.Eth1DataVotes, i)
                 IN  IF ~vote.ok \/ vote = Ret(Nil) THEN Panic
                     ELSE Ret([DepositCount |-> s.Eth1Data.DepositCount,
                               DepositRoot  |-> copy(Zero32, vote.val.DepositRoot),
                               BlockHash    |-> copy(Zero32, vote.val.BlockHash)])
    IN  Collect([i \in 1..Len(res) + 1 |-> step(i)])

Eth1DataVotes(s) ==
    LET res == make(Len(s.Eth1DataVotes))
        step(i) ==
            IF s.Eth1Data = Nil THEN Panic
            ELSE LET vote == Index(s.Eth1DataVotes, i)
                 IN  IF ~vote.ok \/ vote = Ret(Nil) THEN Panic
                     ELSE Ret([DepositCount |-> s.Eth1Data.DepositCount,
                               DepositRoot  |-> copy(Zero32, vote.val.DepositRoot),
                               BlockHash    |-> copy(Zero32, vote.val.BlockHash)])
    IN  Collect([i \in 1..Len(res) |-> step(i)])

Eth1DepositIndex(s) == Ret(s.Eth1DepositIndex)

Validators(s) ==
    LET res == make(Len(s.Validators))
        step(i) ==
            LET val == Index(s.Validators, i)
            IN  IF ~val.ok \/ val = Ret(Nil) THEN Panic
                ELSE Ret([PublicKey                  |-> val.val.PublicKey,
                          WithdrawalCredentials      |-> val.val.WithdrawalCredentials,
                          EffectiveBalance           |-> val.val.EffectiveBalance,
                          Slashed                    |-> val.val.Slashed,
                          ActivationEligibilityEpoch |-> val.val.ActivationEligibilityEpoch,
                          ActivationEpoch            |-> val.val.ActivationEpoch,
                          ExitEpoch                  |-> val.val.ExitEpoch,
                          WithdrawableEpoch          |-> val.val.WithdrawableEpoch])
    IN  Collect([i \in 1..Len(res) |-> step(i)])

Balances(s) == Ret(copy(make(Len(s.Balances)), s.Balances))

RandaoMixes(s) ==
    Ret([i \in 1..Len(s.RandaoMixes) |-> copy(Zero32, s.RandaoMixes[i])])

Slashings(s) == Ret(copy(make(Len(s.Slashings)), s.Slashings))

\* proto.Clone: a deep copy of the message (a nil message stays nil)
protoClone(m) == m

PreviousEpochAttestations(s) ==
    LET res == make(Len(s.PreviousEpochAttestations))
        step(i) ==
            LET att == Index(s.PreviousEpochAttestations, i)
            IN  IF ~att.ok THEN Panic ELSE Ret(protoClone(att.val))
    IN  Collect([i \in 1..Len(res) |-> step(i)])

CurrentEpochAttestations(s) ==
    LET res == make(Len(s.CurrentEpochAttestations))
        step(i) ==
            LET att == Index(s.CurrentEpochAttestations, i)
            IN  IF ~att.ok THEN Panic ELSE Ret(protoClone(att.val))
    IN  Collect([i \in 1..Len(res) |-> step(i)])

\* `bitfield.Bitvector4{}` is a byte slice of length 0
JustificationBits(s) ==
    LET res == << >>
    IN  Ret(copy(res, s.JustificationBits))

PreviousJustifiedCheckpoint(s) ==
    IF s.PreviousJustifiedCheckpoint = Nil THEN Panic
    ELSE Ret([Epoch |-> s.PreviousJustifiedCheckpoint.Epoch,
              Root  |-> copy(Zero32, s.PreviousJustifiedCheckpoint.Root)])

CurrentJustifiedCheckpoint(s) ==
    IF s.CurrentJustifiedCheckpoint = Nil THEN Panic
    ELSE Ret([Epoch |-> s.CurrentJustifiedCheckpoint.Epoch,
              Root  |-> copy(Zero32, s.CurrentJustifiedCheckpoint.Root)])

FinalizedCheckpoint(s) ==
    IF s.FinalizedCheckpoint = Nil THEN Panic
    ELSE Ret([Epoch |-> s.FinalizedCheckpoint.Epoch,
              Root  |-> copy(Zero32, s.FinalizedCheckpoint.Root)])

\* the fields of pbp2p.BeaconState, in the order Clone fills them
Fields == <<"GenesisTime", "Slot", "Fork", "LatestBlockHeader", "BlockRoots",
            "StateRoots", "HistoricalRoots", "Eth1Data", "Eth1DataVotes",
            "Eth1DepositIndex", "Validators", "Balances", "RandaoMixes",
            "Slashings", "PreviousEpochAttestations", "CurrentEpochAttestations",
            "JustificationBits", "PreviousJustifiedCheckpoint",
            "CurrentJustifiedCheckpoint", "FinalizedCheckpoint">>

Accessors == {Fields[i] : i \in 1..Len(Fields)}

\* the method of BeaconState named f, called on a store wrapping s
Apply(f, s) ==
    CASE f = "GenesisTime" -> GenesisTime(s)
      [] f = "Slot" -> Slot(s)
      [] f = "Fork" -> Fork(s)
      [] f = "LatestBlockHeader" -> LatestBlockHeader(s)
      [] f = "BlockRoots" -> BlockRoots(s)
      [] f = "StateRoots" -> StateRoots(s)
      [] f = "HistoricalRoots" -> HistoricalRoots(s)
      [] f = "Eth1Data" -> Eth1Data(s)
      [] f = "Eth1DataVotes" -> Eth1DataVotes(s)
      [] f = "Eth1DepositIndex" -> Eth1DepositIndex(s)
      [] f = "Validators" -> Validators(s)
      [] f = "Balances" -> Balances(s)
      [] f = "RandaoMixes" -> RandaoMixes(s)
      [] f = "Slashings" -> Slashings(s)
      [] f = "PreviousEpochAttestations" -> PreviousEpochAttestations(s)
      [] f = "CurrentEpochAttestations" -> CurrentEpochAttestations(s)
      [] f = "JustificationBits" -> JustificationBits(s)
      [] f = "PreviousJustifiedCheckpoint" -> PreviousJustifiedCheckpoint(s)
      [] f = "CurrentJustifiedCheckpoint" -> CurrentJustifiedCheckpoint(s)
      [] f = "FinalizedCheckpoint" -> FinalizedCheckpoint(s)

\* Clone with the state_roots field filled from BlockRoots
CloneWrongField(s) ==
    LET r == [g \in Accessors |-> IF g = "StateRoots" THEN BlockRoots(s) ELSE Apply(g, s)]
    IN  IF \E g \in Accessors : ~r[g].ok THEN Panic
        ELSE Ret([g \in Accessors |-> r[g].val])

Clone(s) ==
    LET r == [GenesisTime                 |-> GenesisTime(s),
              Slot                        |-> Slot(s),
              Fork                        |-> Fork(s),
              LatestBlockHeader           |-> LatestBlockHeader(s),
              BlockRoots                  |-> BlockRoots(s),
              StateRoots                  |-> StateRoots(s),
              HistoricalRoots             |-> HistoricalRoots(s),
              Eth1Data                    |-> Eth1Data(s),
              Eth1DataVotes               |-> Eth1DataVotes(s),
              Eth1DepositIndex            |-> Eth1DepositIndex(s),
              Validators                  |-> Validators(s),
              Balances                    |-> Balances(s),
              RandaoMixes                 |-> RandaoMixes(s),
              Slashings                   |-> Slashings(s),
              PreviousEpochAttestations   |-> PreviousEpochAttestations(s),
              CurrentEpochAttestations    |-> CurrentEpochAttestations(s),
              JustificationBits           |-> JustificationBits(s),
              PreviousJustifiedCheckpoint |-> PreviousJustifiedCheckpoint(s),
              CurrentJustifiedCheckpoint  |-> CurrentJustifiedCheckpoint(s),
              FinalizedCheckpoint         |-> FinalizedCheckpoint(s)]
    IN  IF \E g \in Accessors : ~r[g].ok THEN Panic
        ELSE Ret([g \in Accessors |-> r[g].val])

\* fn ranges over the accessors and Clone
Call(f, s) == IF f = "Clone" THEN Clone(s) ELSE Apply(f, s)

-----------------------------------------------------------------------------
(* The stores the model starts from *)

Buffers ==
    {Ramp(L) : L \in 0..MaxBufLen} \cup {Fill(170, L) : L \in {RootLen, MaxBufLen}}

\* a buffer that differs from buf (its bytes are 0x11, which buf never holds)
Other(buf) == Fill(17, (Len(buf) % MaxBufLen) + 1)

\* addresses of the shared backing arrays of version ver of the state
Addrs(ver, n) ==
    {<<ver, "fork", i>> : i \in 1..2}
        \cup {<<ver, "pubkey", i>> : i \in 1..n}
        \cup {<<ver, "wc", i>> : i \in 1..n}

InitMem(n0, n1) ==
    [ad \in Addrs(0, n0) \cup Addrs(1, n1) |->
        [j \in 1..KeyLen |->
            (64 * ad[1] + 8 * ad[3] + j + (IF ad[2] = "wc" THEN 32 ELSE 0)) % 256]]

Attestation(i, root) ==
    [AggregationBits |-> <<i, 1>>,
     Data            |-> [Slot |-> i, BeaconBlockRoot |-> root],
     InclusionDelay  |-> 1,
     ProposerIndex   |-> i]

\* version ver of a state with n validators, built around the buffer buf; with
\* distinct set, neighbouring fields hold different data
MkState(buf, n, distinct, ver) ==
    LET alt == IF distinct THEN Other(buf) ELSE buf
    IN  [GenesisTime       |-> 1,
         Slot              |-> 10 + ver,
         Fork              |-> [PreviousVersion |-> <<ver, "fork", 1>>,
                                CurrentVersion  |-> <<ver, "fork", 2>>,
                                Epoch           |-> ver],
         LatestBlockHeader |-> [Slot |-> 9 + ver, ParentRoot |-> buf,
                                StateRoot |-> alt, BodyRoot |-> buf],
         BlockRoots        |-> [i \in 1..n |-> IF i % 2 = 1 THEN buf ELSE alt],
         StateRoots        |-> [i \in 1..n |-> IF i % 2 = 1 THEN alt ELSE buf],
         HistoricalRoots   |-> [i \in 1..n |-> buf],
         Eth1Data          |-> [DepositRoot |-> buf, DepositCount |-> 5, BlockHash |-> alt],
         Eth1DataVotes     |-> [i \in 1..n |->
                                   [DepositRoot  |-> alt,
                                    DepositCount |-> IF distinct THEN 5 + i ELSE 5,
                                    BlockHash    |-> buf]],
         Eth1DepositIndex  |-> 3 + ver,
         Validators        |-> [i \in 1..n |->
                                   [PublicKey                  |-> <<ver, "pubkey", i>>,
                                    WithdrawalCredentials      |-> <<ver, "wc", i>>,
                                    EffectiveBalance           |-> 32,
                                    Slashed                    |-> (i = 2),
                                    ActivationEligibilityEpoch |-> i,
                                    ActivationEpoch            |-> i + 1,
                                    ExitEpoch                  |-> i + 2,
                                    WithdrawableEpoch          |-> i + 3]],
         Balances          |-> [i \in 1..n |-> 31 + i + ver],
         RandaoMixes       |-> [i \in 1..n |-> alt],
         Slashings         |-> [i \in 1..n |-> i + ver],
         PreviousEpochAttestations |-> [i \in 1..n |-> Attestation(i, buf)],
         CurrentEpochAttestations  |-> [i \in 1..n |-> Attestation(i + 2, alt)],
         JustificationBits |-> <<(Len(buf) + ver) % 16>>,
         PreviousJustifiedCheckpoint |-> [Epoch |-> 1, Root |-> buf],
         CurrentJustifiedCheckpoint  |-> [Epoch |-> 2, Root |-> alt],
         FinalizedCheckpoint         |-> [Epoch |-> 0, Root |-> buf]]

\* stores that are not well formed: a message pointer of the state is nil
Broken == {"Fork", "LatestBlockHeader", "Eth1Data", "PreviousJustifiedCheckpoint",
           "CurrentJustifiedCheckpoint", "FinalizedCheckpoint", "Eth1DataVotes",
           "Validators"}

Break(s, w) ==
    CASE w = "none" -> s
      [] w \in {"Eth1DataVotes", "Validators"} ->
            IF Len(s[w]) = 0 THEN s ELSE [s EXCEPT ![w][1] = Nil]
      [] OTHER -> [s EXCEPT ![w] = Nil]

WellFormed(s) ==
    /\ \A w \in Broken \ {"Eth1DataVotes", "Validators"} : s[w] # Nil
    /\ \A i \in 1..Len(s.Eth1DataVotes) : s.Eth1DataVotes[i] # Nil
    /\ \A i \in 1..Len(s.Validators) : s.Validators[i] # Nil
    /\ Len(s.Validators) = Len(s.Balances)

NextBuf(buf) == Fill(34, Len(buf))
NextN(n) == (n + 1) % (MaxLen + 1)

-----------------------------------------------------------------------------
(* Deep values: what a holder of v reads through its pointers, given heap m *)

DerefFork(v, m) ==
    IF v = Nil THEN Nil
    ELSE [v EXCEPT !.PreviousVersion = m[@], !.CurrentVersion = m[@]]

DerefValidators(vs, m) ==
    [i \in 1..Len(vs) |->
        IF vs[i] = Nil THEN Nil
        ELSE [vs[i] EXCEPT !.PublicKey = m[@], !.WithdrawalCredentials = m[@]]]

DerefState(c, m) ==
    [g \in Accessors |->
        CASE g = "Fork" -> DerefFork(c[g], m)
          [] g = "Validators" -> DerefValidators(c[g], m)
          [] OTHER -> c[g]]

View(f, v, m) ==
    CASE f = "Fork" -> DerefFork(v, m)
      [] f = "Validators" -> DerefValidators(v, m)
      [] f = "Clone" -> DerefState(v, m)
      [] OTHER -> v

ViewR(f, r, m) == IF r.ok THEN Ret(View(f, r.val, m)) ELSE Panic

-----------------------------------------------------------------------------
(* What a caller can do to a value it was handed *)

Scalars == {"GenesisTime", "Slot", "Eth1DepositIndex"}
RootSeqs == {"BlockRoots", "StateRoots", "HistoricalRoots", "RandaoMixes"}
UintSeqs == {"Balances", "Slashings"}
AttSeqs == {"PreviousEpochAttestations", "CurrentEpochAttestations"}
Checkpoints == {"PreviousJustifiedCheckpoint", "CurrentJustifiedCheckpoint",
                "FinalizedCheckpoint"}

\* overwrite the first byte of a non-empty buffer
Poke(buf) == [buf EXCEPT ![1] = (@ + 1) % 256]

Pokes(buf) == IF Len(buf) = 0 THEN {} ELSE {Poke(buf)}

\* the writes a caller can make through the value v that accessor f returned:
\* each gives the caller's value and the heap afterwards
Mutations(f, v, m) ==
    LET Local(S) == {[val |-> x, mem |-> m] : x \in S}
        Shared(A) == {[val |-> v, mem |-> [m EXCEPT ![ad] = Poke(@)]] : ad \in A}
    IN  CASE f \in Scalars -> Local({v + 1})
          [] f = "Fork" ->
                Shared({v.PreviousVersion, v.CurrentVersion})
                    \cup Local({[v EXCEPT !.Epoch = @ + 1]})
          [] f = "LatestBlockHeader" ->
                Local({[v EXCEPT !.ParentRoot = Poke(@)], [v EXCEPT !.StateRoot = Poke(@)],
                       [v EXCEPT !.BodyRoot = Poke(@)], [v EXCEPT !.Slot = @ + 1]})
          [] f \in RootSeqs ->
                Local({Append(v, Zero32)} \cup {[v EXCEPT ![i] = Poke(@)] : i \in 1..Len(v)})
          [] f \in UintSeqs ->
                Local({Append(v, 0)} \cup {[v EXCEPT ![i] = @ + 1] : i \in 1..Len(v)})
          [] f = "Eth1Data" ->
                Local({[v EXCEPT !.DepositRoot = Poke(@)], [v EXCEPT !.BlockHash = Poke(@)],
                       [v EXCEPT !.DepositCount = @ + 1]})
          [] f = "Eth1DataVotes" ->
                Local({Append(v, [DepositCount |-> 0, DepositRoot |-> Zero32,
                                  BlockHash |-> Zero32])}
                      \cup {[v EXCEPT ![i].DepositRoot = Poke(@)] : i \in 1..Len(v)}
                      \cup {[v EXCEPT ![i].DepositCount = @ + 1] : i \in 1..Len(v)})
          [] f = "Validators" ->
                Shared({v[i].PublicKey : i \in 1..Len(v)}
                       \cup {v[i].WithdrawalCredentials : i \in 1..Len(v)})
                    \cup Local({[v EXCEPT ![i].EffectiveBalance = @ + 1] : i \in 1..Len(v)}
                               \cup {Append(v, v[i]) : i \in 1..Len(v)})
          [] f \in AttSeqs ->
                Local({[v EXCEPT ![i].AggregationBits = Poke(@)] : i \in 1..Len(v)}
                      \cup UNION {{[v EXCEPT ![i].Data.BeaconBlockRoot = x] :
                                       x \in Pokes(v[i].Data.BeaconBlockRoot)} :
                                   i \in 1..Len(v)}
                      \cup {Append(v, v[i]) : i \in 1..Len(v)})
          [] f = "JustificationBits" ->
                Local({Append(v, 1)} \cup {[v EXCEPT ![i] = (@ + 1) % 256] : i \in 1..Len(v)})
          [] f \in Checkpoints ->
                Local({[v EXCEPT !.Root = Poke(@)], [v EXCEPT !.Epoch = @ + 1]})

\* writes through a clone: any write through any of its fields
CloneMutations(c, m) ==
    UNION {{[val |-> [c EXCEPT ![g] = x.val], mem |-> x.mem] : x \in Mutations(g, c[g], m)} :
              g \in Accessors}

AllMutations(f, v, m) ==
    IF f = "Clone" THEN CloneMutations(v, m) ELSE Mutations(f, v, m)

-----------------------------------------------------------------------------
(* Sequential use of the getters *)

Idle == [op |-> "idle", k |-> 0, done |-> FALSE]

IdleGetters ==
    /\ mem0 = mem
    /\ fn = "none"
    /\ a = Panic /\ b = Panic /\ a0 = Panic /\ b0 = Panic
    /\ touched = "none"

IdleReader == rpc = Idle /\ rold = state /\ rlen = 0 /\ rres = Panic

IdleGateway == hreq = Nil /\ hresp = Nil /\ hcount = 0

\* a store built around one of bufs, and the state of the slot after it; the
\* stores that are not well formed are included when broken is set
InitStore(bufs, broken) ==
    \E buf \in bufs, n \in 0..MaxLen, d \in BOOLEAN :
      \E w \in {"none"} \cup (IF broken /\ Len(buf) = MaxBufLen THEN Broken ELSE {}) :
        /\ state = Break(MkState(buf, n, d, 0), w)
        /\ next = MkState(NextBuf(buf), NextN(n), d, 1)
        /\ mem = InitMem(n, NextN(n))

Init ==
    /\ InitStore(Buffers, TRUE)
    /\ IdleGetters
    /\ IdleReader
    /\ IdleGateway

\* a := f(); b := f() for one accessor f, nothing in between
CallAccessor ==
    /\ fn = "none"
    /\ \E f \in Accessors :
        /\ fn' = f
        /\ a' = Apply(f, state)
        /\ b' = Apply(f, state)
        /\ a0' = ViewR(f, a', mem)
        /\ b0' = ViewR(f, b', mem)
    /\ mem0' = mem
    /\ UNCHANGED <<state, next, mem, touched, cvars, hvars>>

\* a := Clone(); b := Clone(), nothing in between
CallClone ==
    /\ fn = "none"
    /\ fn' = "Clone"
    /\ a' = Clone(state)
    /\ b' = Clone(state)
    /\ a0' = ViewR("Clone", a', mem)
    /\ b0' = ViewR("Clone", b', mem)
    /\ mem0' = mem
    /\ UNCHANGED <<state, next, mem, touched, cvars, hvars>>

\* the caller writes through a
MutateA ==
    /\ fn # "none"
    /\ touched = "none"
    /\ a.ok
    /\ \E x \in AllMutations(fn, a.val, mem) :
        /\ a' = Ret(x.val)
        /\ mem' = x.mem
    /\ touched' = "a"
    /\ UNCHANGED <<state, next, mem0, fn, b, a0, b0, cvars, hvars>>

\* the state transition commits the state of the next slot
Commit ==
    /\ state # next
    /\ touched = "none"
    /\ state' = next
    /\ touched' = IF fn = "none" THEN "none" ELSE "store"
    /\ UNCHANGED <<next, mem, mem0, fn, a, b, a0, b0, cvars, hvars>>

Next == CallAccessor \/ CallClone \/ MutateA \/ Commit

Spec == Init /\ [][Next]_vars

-----------------------------------------------------------------------------
(* Properties of the getters *)

\* normalisation of a root as the specification words it: zero-padded on the
\* right up to 32 bytes, cut to the first 32 bytes beyond
PadTrunc(buf) ==
    IF Len(buf) <= RootLen THEN buf \o Fill(0, RootLen - Len(buf))
    ELSE SubSeq(buf, 1, RootLen)

\* bit i of a Bitvector4 (false when the vector is not one byte long)
BitAt(bv, i) == Len(bv) = 1 /\ (bv[1] \div (2 ^ i)) % 2 = 1

Returned == fn # "none" /\ touched = "none" /\ a.ok

\* C1 (alias-freedom): after a = f() and b = f(), a write through a at any
\* depth leaves b and every later accessor result unchanged, and a mutation of
\* the store leaves a and b unchanged.
AliasFreedom ==
    (fn \in Accessors \ Scalars /\ a.ok /\ b.ok) =>
        /\ touched = "a" =>
              /\ ViewR(fn, b, mem) = b0
              /\ ViewR(fn, Apply(fn, state), mem) = b0
        /\ touched = "store" =>
              /\ ViewR(fn, a, mem) = a0
              /\ ViewR(fn, b, mem) = b0

\* C2 (root normalisation): every root an accessor surfaces is the stored
\* buffer of that field zero-padded or truncated to exactly 32 bytes.
RootNormalization ==
    Returned =>
        /\ fn \in RootSeqs =>
              /\ Len(a.val) = Len(state[fn])
              /\ \A i \in 1..Len(a.val) : a.val[i] = PadTrunc(state[fn][i])
        /\ fn = "LatestBlockHeader" =>
              /\ Len(a.val.ParentRoot) = RootLen
              /\ Len(a.val.StateRoot) = RootLen
              /\ Len(a.val.BodyRoot) = RootLen
              /\ a.val.ParentRoot = PadTrunc(state.LatestBlockHeader.ParentRoot)
              /\ a.val.StateRoot = PadTrunc(state.LatestBlockHeader.StateRoot)
              /\ a.val.BodyRoot = PadTrunc(state.LatestBlockHeader.BodyRoot)
        /\ fn = "Eth1Data" =>
              /\ a.val.DepositRoot = PadTrunc(state.Eth1Data.DepositRoot)
              /\ a.val.BlockHash = PadTrunc(state.Eth1Data.BlockHash)
        /\ fn = "Eth1DataVotes" =>
              \A i \in 1..Len(a.val) :
                  /\ a.val[i].DepositRoot = PadTrunc(state.Eth1DataVotes[i].DepositRoot)
                  /\ a.val[i].BlockHash = PadTrunc(state.Eth1DataVotes[i].BlockHash)
        /\ fn \in Checkpoints => a.val.Root = PadTrunc(state[fn].Root)

\* C3 (clone independence): two successive clones are equal field for field,
\* and a write through one of them at any depth leaves the other clone, the
\* store and every fresh accessor result unchanged.
CloneIndependence ==
    (fn = "Clone" /\ a.ok /\ b.ok) =>
        /\ a0 = b0
        /\ touched = "a" =>
              /\ ViewR("Clone", b, mem) = b0
              /\ DerefState(state, mem) = DerefState(state, mem0)
              /\ \A g \in Accessors : ViewR(g, Apply(g, state), mem) = Ret(b0.val[g])

\* C5 (sequence fidelity): a sequence accessor returns as many elements as are
\* stored, and element i is a copy of stored element i in every attribute
\* (roots normalised).
SequenceFidelity ==
    Returned =>
        /\ fn \in RootSeqs \cup UintSeqs \cup AttSeqs \cup {"Eth1DataVotes", "Validators"} =>
              Len(a.val) = Len(state[fn])
        /\ fn \in RootSeqs =>
              \A i \in 1..Len(state[fn]) : a.val[i] = PadTrunc(state[fn][i])
        /\ fn \in UintSeqs \cup AttSeqs \cup {"Validators"} =>
              \A i \in 1..Len(state[fn]) : a.val[i] = state[fn][i]
        /\ fn = "Validators" => a0.val = DerefValidators(state.Validators, mem)
        /\ fn = "Eth1DataVotes" =>
              \A i \in 1..Len(state.Eth1DataVotes) :
                  a.val[i] =
                      [DepositRoot  |-> PadTrunc(state.Eth1DataVotes[i].DepositRoot),
                       BlockHash    |-> PadTrunc(state.Eth1DataVotes[i].BlockHash),
                       DepositCount |-> state.Eth1DataVotes[i].DepositCount]

\* C6 (clone completeness): every field of the record Clone returns equals the
\* result of the accessor of the same name on the same store.
CloneCompleteness ==
    (fn = "Clone" /\ touched = "none" /\ a.ok) =>
        /\ DOMAIN a.val = Accessors
        /\ \A g \in Accessors : Apply(g, state) = Ret(a.val[g])

\* a clone was taken right after a commit, of a state with validators
CloneCompletenessWitness ==
    /\ fn = "Clone" /\ touched = "none" /\ a.ok
    /\ state = next
    /\ Len(a.val.Validators) > 0
    /\ a.val.StateRoots # a.val.BlockRoots

\* C7 (totality): on a well-formed store every accessor and Clone returns a
\* value; none aborts.
Totality ==
    (fn # "none" /\ touched # "store" /\ WellFormed(state)) => (a.ok /\ b.ok)

\* Clone returned on a well-formed store with oversized root buffers and
\* empty sequences
TotalityWitness ==
    /\ fn = "Clone" /\ touched = "none" /\ WellFormed(state)
    /\ a.ok
    /\ Len(state.Eth1Data.DepositRoot) > RootLen
    /\ Len(state.Validators) = 0

\* C9 (header correspondence): the returned header carries the stored slot and
\* the normalisation of the stored parent_root, state_root and body_root, each
\* under its own name.
HeaderCorrespondence ==
    (Returned /\ fn = "LatestBlockHeader") =>
        a.val = [Slot       |-> state.LatestBlockHeader.Slot,
                 ParentRoot |-> PadTrunc(state.LatestBlockHeader.ParentRoot),
                 StateRoot  |-> PadTrunc(state.LatestBlockHeader.StateRoot),
                 BodyRoot   |-> PadTrunc(state.LatestBlockHeader.BodyRoot)]

\* C10 (justification bits): JustificationBits returns a vector as long as the
\* stored one with the same four bits, and the justification_bits of a clone
\* equals the stored vector.
JustificationBitsFidelity ==
    Returned =>
        /\ fn = "JustificationBits" =>
              /\ Len(a.val) = Len(state.JustificationBits)
              /\ \A i \in 0..3 : BitAt(a.val, i) = BitAt(state.JustificationBits, i)
        /\ fn = "Clone" => a.val.JustificationBits = state.JustificationBits

-----------------------------------------------------------------------------
(* A reader running beside the writer.  The getters take no lock, and every *)
(* expression `b.state.X` loads the pointer b.state again: between two such *)
(* expressions lies a call (make, the next accessor), across which the      *)
(* loaded pointer is not kept.  A step of the reader is one such load.      *)

ConcBuffers == {Ramp(L) : L \in {0, RootLen, MaxBufLen}}

InitConc ==
    /\ InitStore(ConcBuffers, FALSE)
    /\ IdleGetters
    /\ IdleReader
    /\ IdleGateway

ReaderStart ==
    /\ rpc = Idle
    /\ \E op \in {"Clone", "Balances", "Validators"} :
        rpc' = [op |-> op, k |-> 0, done |-> FALSE]
    /\ rold' = state
    /\ rres' = Ret(<< >>)
    /\ UNCHANGED <<rlen, gvars, hvars>>

\* Clone evaluates the accessors one after the other, in the order of Fields;
\* rres collects their results in that order
CloneStep ==
    /\ rpc.op = "Clone" /\ ~rpc.done
    /\ LET r == Apply(Fields[rpc.k + 1], state)
        IN  /\ rres' = IF r.ok THEN Ret(Append(rres.val, r.val)) ELSE Panic
            /\ rpc' = [rpc EXCEPT !.k = @ + 1,
                                  !.done = ~r.ok \/ rpc.k + 1 = Len(Fields)]
    /\ UNCHANGED <<rold, rlen, gvars, hvars>>

\* Balances: make(len(b.state.Balances)), then copy(res, b.state.Balances)
BalancesStep ==
    /\ rpc.op = "Balances" /\ ~rpc.done
    /\ LET s == state IN
        IF rpc.k = 0
        THEN /\ rlen' = Len(s.Balances)
             /\ rpc' = [rpc EXCEPT !.k = 1]
             /\ UNCHANGED rres
        ELSE /\ rres' = Ret(copy(make(rlen), s.Balances))
             /\ rpc' = [rpc EXCEPT !.done = TRUE]
             /\ UNCHANGED rlen
    /\ UNCHANGED <<rold, gvars, hvars>>

\* Validators: make(len(b.state.Validators)), then one b.state.Validators[i]
\* per round of the loop
ValidatorsStep ==
    /\ rpc.op = "Validators" /\ ~rpc.done
    /\ LET s == state IN
        IF rpc.k = 0
        THEN /\ rlen' = Len(s.Validators)
             /\ rpc' = [rpc EXCEPT !.k = 1, !.done = (Len(s.Validators) = 0)]
             /\ UNCHANGED rres
        ELSE LET val == Index(s.Validators, rpc.k)
             IN  /\ rres' = IF val.ok THEN Ret(Append(rres.val, val.val)) ELSE Panic
                 /\ rpc' = [rpc EXCEPT !.k = @ + 1, !.done = ~val.ok \/ rpc.k = rlen]
                 /\ UNCHANGED rlen
    /\ UNCHANGED <<rold, gvars, hvars>>

NextConc == ReaderStart \/ CloneStep \/ BalancesStep \/ ValidatorsStep \/ Commit

SpecConc == InitConc /\ [][NextConc]_vars

\* what the reader's operation returns on a store that stands still
Snapshot(op, s) ==
    CASE op = "Clone" -> Ret([k \in 1..Len(Fields) |-> Clone(s).val[Fields[k]]])
      [] op = "Balances" -> Balances(s)
      [] op = "Validators" -> Validators(s)

\* C4 (snapshot atomicity): whatever the interleaving with the writer, what a
\* reader returns is the value of its operation on one version of the store,
\* the one before the commit or the one after; a clone has as many balances
\* as validators.
SnapshotAtomicity ==
    rpc.done =>
        /\ \E s \in {rold, state} : rres = Snapshot(rpc.op, s)
        /\ rpc.op = "Clone" => Len(rres.val[12]) = Len(rres.val[11])

-----------------------------------------------------------------------------
(* The REST gateway of the RemoteSigner service *)

NoErr == "nil"

\* what the signer answers to a call: a message and an error (NoErr for none)
SignerOutcomes ==
    [msg : {"nil", "reply"}, err : {NoErr, "Unavailable", "NotFound"}]

\* an HTTP request as the handlers see it: whether annotating the context,
\* req.ParseForm and PopulateQueryParameters fail on it
Requests ==
    [annotateErr : BOOLEAN, parseFormErr : BOOLEAN, populateErr : BOOLEAN]

\* result of a request_* function, with whether the signer was invoked
Result(msg, err, invoked) == [msg |-> msg, err |-> err, invoked |-> invoked]

request_RemoteSigner_ListValidatingPublicKeys_0(req, client) ==
    Result(client.msg, client.err, TRUE)

local_request_RemoteSigner_ListValidatingPublicKeys_0(req, server) ==
    Result(server.msg, server.err, TRUE)

\* request_RemoteSigner_Sign_0 going on to the signer after a parse error
request_RemoteSigner_Sign_0_NoReturn(req, client) ==
    Result(client.msg, client.err, TRUE)

request_RemoteSigner_Sign_0(req, client) ==
    IF req.parseFormErr THEN Result("nil", "InvalidArgument", FALSE)
    ELSE IF req.populateErr THEN Result("nil", "InvalidArgument", FALSE)
    ELSE Result(client.msg, client.err, TRUE)

local_request_RemoteSigner_Sign_0(req, server) ==
    IF req.parseFormErr THEN Result("nil", "InvalidArgument", FALSE)
    ELSE IF req.populateErr THEN Result("nil", "InvalidArgument", FALSE)
    ELSE Result(server.msg, server.err, TRUE)

\* runtime.HTTPError and runtime.ForwardResponseMessage: what they write
HTTPError(err) == [kind |-> "error", body |-> err]
ForwardResponseMessage(resp) == [kind |-> "success", body |-> resp]

\* the handlers registered on the mux: the writes made to w for one request,
\* and whether the signer was invoked
ServerListHandler(req, server) ==
    IF req.annotateErr THEN [w |-> <<HTTPError("Annotate")>>, invoked |-> FALSE]
    ELSE LET r == local_request_RemoteSigner_ListValidatingPublicKeys_0(req, server)
         IN  IF r.err # NoErr THEN [w |-> <<HTTPError(r.err)>>, invoked |-> r.invoked]
             ELSE [w |-> <<ForwardResponseMessage(r.msg)>>, invoked |-> r.invoked]

ServerSignHandler(req, server) ==
    IF req.annotateErr THEN [w |-> <<HTTPError("Annotate")>>, invoked |-> FALSE]
    ELSE LET r == local_request_RemoteSigner_Sign_0(req, server)
         IN  IF r.err # NoErr THEN [w |-> <<HTTPError(r.err)>>, invoked |-> r.invoked]
             ELSE [w |-> <<ForwardResponseMessage(r.msg)>>, invoked |-> r.invoked]

ClientListHandler(req, client) ==
    IF req.annotateErr THEN [w |-> <<HTTPError("Annotate")>>, invoked |-> FALSE]
    ELSE LET r == request_RemoteSigner_ListValidatingPublicKeys_0(req, client)
         IN  IF r.err # NoErr THEN [w |-> <<HTTPError(r.err)>>, invoked |-> r.invoked]
             ELSE [w |-> <<ForwardResponseMessage(r.msg)>>, invoked |-> r.invoked]

ClientSignHandler(req, client) ==
    IF req.annotateErr THEN [w |-> <<HTTPError("Annotate")>>, invoked |-> FALSE]
    ELSE LET r == request_RemoteSigner_Sign_0(req, client)
         IN  IF r.err # NoErr THEN [w |-> <<HTTPError(r.err)>>, invoked |-> r.invoked]
             ELSE [w |-> <<ForwardResponseMessage(r.msg)>>, invoked |-> r.invoked]

InitGateway ==
    /\ state = MkState(<< >>, 0, FALSE, 0)
    /\ next = state
    /\ mem = InitMem(0, 0)
    /\ IdleGetters
    /\ IdleReader
    /\ IdleGateway

\* the mux serves one request: hreq keeps the request and the signer's answer,
\* hresp what the handler did
Serve(route, req, signer, out) ==
    /\ hcount < MaxRequests
    /\ hreq' = [route |-> route, req |-> req, signer |-> signer]
    /\ hresp' = out
    /\ hcount' = hcount + 1
    /\ UNCHANGED <<gvars, cvars>>

ServeServerList ==
    \E req \in Requests, server \in SignerOutcomes :
        /\ ~req.parseFormErr /\ ~req.populateErr
        /\ Serve("local/List", req, server, ServerListHandler(req, server))

ServeServerSign ==
    \E req \in Requests, server \in SignerOutcomes :
        Serve("local/Sign", req, server, ServerSignHandler(req, server))

ServeClientList ==
    \E req \in Requests, client \in SignerOutcomes :
        /\ ~req.parseFormErr /\ ~req.populateErr
        /\ Serve("List", req, client, ClientListHandler(req, client))

ServeClientSign ==
    \E req \in Requests, client \in SignerOutcomes :
        Serve("Sign", req, client, ClientSignHandler(req, client))

NextGateway == ServeServerList \/ ServeServerSign \/ ServeClientList \/ ServeClientSign

SpecGateway == InitGateway /\ [][NextGateway]_vars

Served == hcount > 0

ParseFails ==
    hreq.route \in {"Sign", "local/Sign"} /\ (hreq.req.parseFormErr \/ hreq.req.populateErr)

\* C8 (signing failures propagate): a request that fails to parse gets one
\* InvalidArgument error response and the signer is not invoked; a request on
\* which the signer returned an error gets that error as its one response; a
\* success response is forwarded only when the signer was invoked and returned
\* no error, and is then the only response.
SigningFailuresPropagate ==
    Served =>
        /\ (~hreq.req.annotateErr /\ ParseFails) =>
              /\ hresp.w = <<HTTPError("InvalidArgument")>>
              /\ ~hresp.invoked
        /\ (hresp.invoked /\ hreq.signer.err # NoErr) =>
              hresp.w = <<HTTPError(hreq.signer.err)>>
        /\ (\E i \in 1..Len(hresp.w) : hresp.w[i].kind = "success") =>
              /\ hresp.invoked
              /\ hreq.signer.err = NoErr
              /\ hresp.w = <<ForwardResponseMessage(hreq.signer.msg)>>

\* a Sign request reached the signer, the signer failed although it also
\* returned a message, and the handler answered with the error
SigningFailuresPropagateWitness ==
    /\ Served
    /\ hreq.route = "Sign"
    /\ hresp.invoked
    /\ hreq.signer = [msg |-> "reply", err |-> "Unavailable"]
    /\ hresp.w = <<HTTPError("Unavailable")>>

====
